---- MODULE Spec2Model ----
(***************************************************************************)
(* Model of the sandboxed semantic-search orchestrator (class Seagoat,     *)
(* src/src/repo_read_mcp/seagoat.py) together with the container runtime   *)
(* it drives: the image store, the containers, their status and output.    *)
(* A container's output is read through the reference the orchestrator     *)
(* holds to it (container.logs() in the wait), so the model keeps the       *)
(* output of the container each orchestrator refers to.                    *)
(*                                                                         *)
(* Several orchestrator objects share one runtime.  Each object is driven  *)
(* sequentially (one public call at a time); the calls of different        *)
(* objects, the containers themselves and other users of the runtime       *)
(* interleave at every runtime call.                                       *)
(*                                                                         *)
(* The result parser (Seagoat._parse_search_results) is a pure function:   *)
(* search() applies it in one step, and ParserSpec runs one call of it     *)
(* step by step over a set of raw outputs.  Repository.search              *)
(* (src/repo_read_mcp/repository.py) wraps search() in its try/except.     *)
(*                                                                         *)
(* The other utilities of Repository (read_file_lines, tree_dir) and       *)
(* safe_path_join are pure functions too; UtilSpec applies them to a set   *)
(* of arguments.  KeepAliveSpec runs the handlers of the MCP tools and     *)
(* their keepalive task on the event loop.  FairSpec is Spec with the      *)
(* thread inside run() kept running.                                       *)
(***************************************************************************)
EXTENDS Integers, Sequences, FiniteSets, TLC

(***************************************************************************)
(* Bounds of the model.                                                    *)
(***************************************************************************)
MaxContainers == 2      \* containers the runtime ever creates
MaxLog        == 2      \* characters a container writes to its output
MaxCalls      == 2      \* public calls made on the orchestrator objects
TimeoutWindow == 2      \* `timeout` of the wait, in poll intervals
MaxDelay      == 2      \* longest time one sleep may take, in poll intervals
MaxLines      == 3      \* lines of raw output handed to the result parser

\* The orchestrator objects that share the runtime: the server's, which is
\* run and searched (scripts/mcp_server.py through Repository), and the one
\* of scripts/prepare.py, which is only prepared.  cleanup() is registered at
\* exit for both.
Orchs   == {"server", "preparer"}
Runners == {"server"}

(***************************************************************************)
(* Program constants.                                                      *)
(***************************************************************************)
HexDigestLen == 64      \* hex characters of a SHA-256 digest
TagHashLen   == 16      \* context_hash[:16]
PollInterval == 1       \* poll_interval of the wait

\* ANALYSIS_COMPLETE_MESSAGE, as a string over the output alphabet
ANALYSIS_COMPLETE_MESSAGE == <<"A", "!">>
LogChars == {"A", "!"}

\* names of the archive members 'Dockerfile', 'run.sh' and 'repo', each as
\* one byte
NameDockerfile == 68
NameRunScript  == 117
NameRepo       == 101

\* what the packager can find on disk when it runs; <<>> is a missing file,
\* <<b>> a file with bytes b
Missing == << >>
FileStates == [dockerfile : {Missing, << <<0>> >>},
               run_script : {Missing, << <<0>> >>},
               repo       : {<<0>>, <<1>>}]

\* Optional references: None is the empty tuple, Some(x) the 1-tuple
None == << >>
Some(x) == <<x>>

NoContainer == 0

VARIABLES
    images,          \* the image store: the set of tags that name an image
    containers,      \* the runtime's containers, by id (index)
    logs,            \* container.logs() of the container each one refers to
    image,           \* self.image of each orchestrator
    tag,             \* self.tag
    container,       \* self.container (an id, NoContainer for None)
    pc,              \* where each orchestrator's current call stands
    op,              \* the public call each orchestrator is inside of
    build_context,   \* local of prepare(): the archive bytes
    position,        \* the stream position of that archive (BytesIO)
    elapsed,         \* local of the wait: time.time() - start_time
    last_log_output, \* local of the wait
    echoed,          \* what the current or last wait has printed of the output
    raced,           \* another object built this tag since the lookup
    phase,           \* how far each orchestrator's Instance has got
    event,           \* the last step an orchestrator took, and what it did
    returned,        \* what the last public call returned to its caller
    ncalls,          \* number of public calls made so far
    output,          \* _parse_search_results: the raw text it is given
    lines,           \* the lines the loop has still to handle
    current_chunk,   \* the hit being accumulated (None or Some(hit))
    results,         \* the hits emitted so far
    parsing,         \* where the parse call stands
    call,            \* the call of a Repository utility: function, arguments
    reply,           \* what that call returned or raised (None before it)
    tool,            \* the MCP tool whose handler is in progress
    handler,         \* where the handler coroutine of the tool stands
    task,            \* the keepalive task of the handler (ProgressKeepAlive._task)
    must_cancel,     \* cancel() has been called on the task
    tick,            \* local of the keepalive loop
    pings,           \* progress reports sent since the handler started
    busy,            \* time the loop has been blocked by the handler's body
    ntools,          \* number of tool calls handled so far
    exc              \* the exception the handler is raising ("none" if none)

orchVars == <<image, tag, container, pc, op, build_context, position, elapsed,
              last_log_output, echoed, raced, phase, event, returned>>

parserVars == <<output, lines, current_chunk, results, parsing>>

utilVars == <<call, reply>>

keepaliveVars ==
    <<tool, handler, task, must_cancel, tick, pings, busy, ntools, exc>>

\* What a call of the orchestrator leaves alone
auxVars == <<parserVars, utilVars, keepaliveVars>>

vars == <<images, containers, logs, ncalls, orchVars, auxVars>>

(***************************************************************************)
(* Pure functions.                                                         *)
(***************************************************************************)

\* One member of the tar archive: a header with name and size, then the data
TarEntry(name, content) == <<name, Len(content)>> \o content

\* hashlib.sha256 stand-in: a polynomial hash over all bytes of the input,
\* order-sensitive and of fixed width, rendered as HexDigestLen hex digits
\* (least significant first, so that a prefix keeps the mixed part).
RECURSIVE Mix(_, _)
Mix(h, bytes) ==
    IF bytes = << >> THEN h
    ELSE Mix((h * 257 + Head(bytes) + 1) % 65521, Tail(bytes))

RECURSIVE HexDigits(_, _)
HexDigits(n, len) ==
    IF len = 0 THEN << >>
    ELSE <<n % 16>> \o HexDigits(n \div 16, len - 1)

hexdigest(bytes) == HexDigits(Mix(1, bytes), HexDigestLen)

\* Seagoat._create_image_tag: the fixed prefix "repo_read_mcp/seagoat:" is
\* left out, the tag is the first TagHashLen characters of the digest
_create_image_tag(context) == SubSeq(hexdigest(context), 1, TagHashLen)

\* (variant: the stream stays where build_context.read() has left it)
seek_skipped(context, offset) == Len(context)

\* build_context.seek(0)  # Reset buffer for build: the position of the
\* stream of `context` after io.BytesIO.seek(offset)
seek(context, offset) == offset

\* Seagoat._create_build_context once both templates have been read
_create_build_context(files) ==
    TarEntry(NameDockerfile, files.dockerfile[1])
        \o TarEntry(NameRunScript, files.run_script[1])
        \o TarEntry(NameRepo, files.repo)

TemplatesPresent(files) ==
    files.dockerfile # Missing /\ files.run_script # Missing

\* `needle in haystack` for strings
Contains(haystack, needle) ==
    \E i \in 0..(Len(haystack) - Len(needle)) :
        SubSeq(haystack, i + 1, i + Len(needle)) = needle

\* s[n:]
DropPrefix(s, n) == SubSeq(s, n + 1, Len(s))

Min(a, b) == IF a < b THEN a ELSE b

(***************************************************************************)
(* Strings of the result parser: sequences of characters.                  *)
(***************************************************************************)
Newline == "\n"
Colon   == ":"
Whitespace == {" ", Newline}

\* str.strip(): leading and trailing whitespace removed
RECURSIVE lstrip(_)
lstrip(s) ==
    IF s # << >> /\ Head(s) \in Whitespace THEN lstrip(Tail(s)) ELSE s

RECURSIVE rstrip(_)
rstrip(s) ==
    IF s # << >> /\ s[Len(s)] \in Whitespace
    THEN rstrip(SubSeq(s, 1, Len(s) - 1))
    ELSE s

strip(s) == rstrip(lstrip(s))

\* str.split(sep, maxsplit): at most maxsplit cuts, from the left; a negative
\* maxsplit (the default) is no limit
RECURSIVE split(_, _, _)
split(s, sep, maxsplit) ==
    LET at == {i \in 1..Len(s) : s[i] = sep}
    IN  IF maxsplit = 0 \/ at = {} THEN <<s>>
        ELSE LET i == CHOOSE k \in at : \A j \in at : k <= j
             IN  <<SubSeq(s, 1, i - 1)>>
                     \o split(SubSeq(s, i + 1, Len(s)), sep, maxsplit - 1)

\* '\n'.join(parts)
RECURSIVE join(_, _)
join(sep, parts) ==
    IF parts = << >> THEN << >>
    ELSE IF Len(parts) = 1 THEN parts[1]
    ELSE parts[1] \o <<sep>> \o join(sep, Tail(parts))

DigitChars == <<"0", "1", "2", "3", "4", "5", "6", "7", "8", "9">>
IsDigit(c) == \E d \in 1..Len(DigitChars) : DigitChars[d] = c
DigitValue(c) == (CHOOSE d \in 1..Len(DigitChars) : DigitChars[d] = c) - 1

RECURSIVE DecimalValue(_, _)
DecimalValue(n, digits) ==
    IF digits = << >> THEN n
    ELSE DecimalValue(n * 10 + DigitValue(Head(digits)), Tail(digits))

\* int(text): surrounding whitespace and one sign are accepted, then decimal
\* digits only; None stands for ValueError
int(text) ==
    LET t      == strip(text)
        signed == t # << >> /\ Head(t) \in {"-", "+"}
        digits == IF signed THEN Tail(t) ELSE t
    IN  IF digits = << >> \/ \E i \in 1..Len(digits) : ~IsDigit(digits[i])
        THEN None
        ELSE Some(IF signed /\ Head(t) = "-"
                  THEN 0 - DecimalValue(0, digits)
                  ELSE DecimalValue(0, digits))

(***************************************************************************)
(* Seagoat._parse_search_results.                                          *)
(***************************************************************************)

\* for line in output.strip().split('\n')
output_lines(raw) == split(strip(raw), Newline, -1)

\* parts = line.split(':', 2)
line_parts(line) == split(line, Colon, 2)

\* (variant: a line without code text is skipped as well)
well_formed_with_code(line) ==
    /\ line # << >>
    /\ Len(line_parts(line)) >= 3
    /\ int(line_parts(line)[2]) # None
    /\ line_parts(line)[3] # << >>

\* The line passes the three `continue` tests: it is not empty, it has two
\* colons, and the text between them is an integer
well_formed(line) ==
    /\ line # << >>
    /\ Len(line_parts(line)) >= 3
    /\ int(line_parts(line)[2]) # None

\* file_path, line_num, code of a line that is well formed
file_of(line) == line_parts(line)[1]
line_num_of(line) == int(line_parts(line)[2])[1]
code_of(line) == line_parts(line)[3]

\* (variant: every line starts a new hit)
continues_never(chunk, file_path, line_num) == FALSE

\* (variant: lines of one file are merged whatever their numbers)
continues_same_file(chunk, file_path, line_num) ==
    chunk # None /\ chunk[1].file = file_path

\* (variant: consecutive numbers are merged whatever the file)
continues_any_file(chunk, file_path, line_num) ==
    chunk # None /\ chunk[1].end_line + 1 = line_num

\* The test of the loop: the line is a continuation of the current chunk
continues(chunk, file_path, line_num) ==
    /\ chunk # None
    /\ chunk[1].file = file_path
    /\ chunk[1].end_line + 1 = line_num

\* The chunk a line starts
new_chunk(line) ==
    [file |-> file_of(line), start_line |-> line_num_of(line),
     end_line |-> line_num_of(line), code |-> code_of(line)]

\* (variant: the code of a continuation line is appended without the line
\* break)
extended_unseparated(chunk, line) ==
    [chunk EXCEPT !.end_line = line_num_of(line),
                  !.code = @ \o code_of(line)]

\* The chunk after a continuation line
extended(chunk, line) ==
    [chunk EXCEPT !.end_line = line_num_of(line),
                  !.code = @ \o <<Newline>> \o code_of(line)]

\* (variant: the pending chunk is dropped when a new one starts)
flushed_dropped(hits, chunk) == hits

\* if current_chunk: results.append(current_chunk)
flushed(hits, chunk) == IF chunk # None THEN Append(hits, chunk[1]) ELSE hits

\* One iteration of the loop on `line`, from the accumulator
\* acc = [results, current_chunk]
loop_body(acc, line) ==
    IF ~well_formed(line) THEN acc
    ELSE IF continues(acc.current_chunk, file_of(line), line_num_of(line))
    THEN [acc EXCEPT !.current_chunk = Some(extended(@[1], line))]
    ELSE [results       |-> flushed(acc.results, acc.current_chunk),
          current_chunk |-> Some(new_chunk(line))]

RECURSIVE loop(_, _)
loop(acc, rest) ==
    IF rest = << >> THEN acc ELSE loop(loop_body(acc, Head(rest)), Tail(rest))

\* The whole call: the loop over the lines, then the last flush
_parse_search_results(raw) ==
    LET acc == loop([results |-> << >>, current_chunk |-> None],
                    output_lines(raw))
    IN  flushed(acc.results, acc.current_chunk)

(***************************************************************************)
(* Initial state: the objects just constructed, an empty runtime.          *)
(***************************************************************************)
NoEvent == [orch |-> "none", op |-> "none", outcome |-> "none", calls |-> {}]

\* What a public call hands back: nothing (None, or an exception), the list
\* of hits of Seagoat.search, or the SearchResultsOutput of Repository.search
NoValue == [kind |-> "None", results |-> << >>, error |-> None]
List(hits) == [kind |-> "list", results |-> hits, error |-> None]
SearchResultsOutput(hits, err) ==
    [kind |-> "SearchResultsOutput", results |-> hits, error |-> err]

InitRuntime ==
    /\ images = {}
    /\ containers = << >>
    /\ logs = [o \in Orchs |-> << >>]
    /\ image = [o \in Orchs |-> None]
    /\ tag = [o \in Orchs |-> << >>]
    /\ container = [o \in Orchs |-> NoContainer]
    /\ pc = [o \in Orchs |-> "idle"]
    /\ op = [o \in Orchs |-> "none"]
    /\ build_context = [o \in Orchs |-> << >>]
    /\ position = [o \in Orchs |-> 0]
    /\ elapsed = [o \in Orchs |-> 0]
    /\ last_log_output = [o \in Orchs |-> << >>]
    /\ echoed = [o \in Orchs |-> << >>]
    /\ raced = [o \in Orchs |-> FALSE]
    /\ phase = [o \in Orchs |-> "NEW"]
    /\ event = NoEvent
    /\ returned = NoValue
    /\ ncalls = 0

\* No parse call is in progress
ParserIdle ==
    /\ output = << >>
    /\ lines = << >>
    /\ current_chunk = None
    /\ results = << >>
    /\ parsing = "idle"

\* No utility call has been made
NoCall == [fn |-> "none"]

UtilIdle ==
    /\ call = NoCall
    /\ reply = None

\* No tool call is being handled
KeepAliveIdle ==
    /\ tool = "none"
    /\ handler = "idle"
    /\ task = "none"
    /\ must_cancel = FALSE
    /\ tick = 0
    /\ pings = 0
    /\ busy = 0
    /\ ntools = 0
    /\ exc = "none"

Init == InitRuntime /\ ParserIdle /\ UtilIdle /\ KeepAliveIdle

(***************************************************************************)
(* Helpers of the orchestrator's calls.                                    *)
(***************************************************************************)

\* A public call starts only when the object's previous call has ended
CanCall(o) == pc[o] = "idle" /\ ncalls < MaxCalls

\* A search counts as a call; one more may follow the last call on an object
\* that has been cleaned up
CanSearch(o) ==
    \/ CanCall(o)
    \/ pc[o] = "idle" /\ ncalls = MaxCalls /\ phase[o] = "STOPPED"

\* Orchestrators inside run() that have not launched their container yet
PendingLaunches ==
    {p \in Orchs : op[p] = "run" /\ pc[p] \in {"lookup", "build", "launch"}}

\* The step taken: orchestrator o, inside public call `name`, made the
\* runtime and file-system calls `names`; `result` is "pending" when the
\* public call goes on, "ok" when it returns, else the error it raises
Returns(o, name, result, names, value) ==
    /\ event' = [orch |-> o, op |-> name, outcome |-> result, calls |-> names]
    /\ returned' = value

Step(o, name, result, names) == Returns(o, name, result, names, NoValue)

\* The locals of the call in progress die when it ends
LocalsDie(o) ==
    /\ build_context' = [build_context EXCEPT ![o] = << >>]
    /\ position' = [position EXCEPT ![o] = 0]
    /\ elapsed' = [elapsed EXCEPT ![o] = 0]
    /\ last_log_output' = [last_log_output EXCEPT ![o] = << >>]
    /\ raced' = [raced EXCEPT ![o] = FALSE]

\* The public call `name` of o ends, returning "ok" or raising `result`
Ends(o, name, result, names) ==
    /\ pc' = [pc EXCEPT ![o] = "idle"]
    /\ op' = [op EXCEPT ![o] = "none"]
    /\ Step(o, name, result, names)
    /\ LocalsDie(o)

\* The public call `name` of o goes on at `to`
GoesTo(o, name, to, names) ==
    /\ pc' = [pc EXCEPT ![o] = to]
    /\ op' = [op EXCEPT ![o] = name]
    /\ Step(o, name, "pending", names)

\* prepare() has returned normally: a bare prepare() call ends, run() goes
\* on to _run_container()
PrepareReturns(o, name, names) ==
    IF name = "run"
    THEN GoesTo(o, name, "launch", names) /\ LocalsDie(o)
    ELSE Ends(o, name, "ok", names)

\* (variant: run() swallows the exception of prepare() and goes on)
PrepareRaises_swallowed(o, name, result, names) ==
    IF name = "run"
    THEN GoesTo(o, name, "launch", names) /\ LocalsDie(o)
    ELSE Ends(o, name, result, names)

\* prepare() has raised `result`: the exception ends the public call, also
\* when that call is run(), which does not catch it
PrepareRaises(o, name, result, names) == Ends(o, name, result, names)

\* The outcome of the wait moves the Instance on: ANALYZED when the marker
\* was seen, FAILED when the container was found stopped or gone; a timeout
\* leaves it as it is
PhaseAfterWait(o, result) ==
    phase' = [phase EXCEPT ![o] =
                 CASE result = "ok" -> "ANALYZED"
                   [] result \in {"ContainerStopped", "NotFound"} -> "FAILED"
                   [] OTHER -> @]

\* (variant: a missing template goes unnoticed)
open_raises_swallowed(files) == "ok"

\* with open(self.dockerfile_base_path, 'rb'), with open(self.run_script_path,
\* 'rb'): open() of a missing template raises FileNotFoundError, which
\* nothing in _create_build_context or prepare() catches
open_raises(files) ==
    IF TemplatesPresent(files) THEN "ok" ELSE "FileNotFoundError"

\* (variant: prepare() without its guard)
never_prepared(img) == FALSE

\* if self.image: return
already_prepared(img) == img # None

(***************************************************************************)
(* Seagoat.prepare, up to the image lookup: the guard on self.image,       *)
(* _create_build_context and _create_image_tag.  `name` is the public call *)
(* that runs it ("prepare", or "run" which calls prepare() first), `files` *)
(* is what the packager finds on disk.                                     *)
(***************************************************************************)
prepare_entry(o, name, files) ==
    /\ CanCall(o)
    /\ ncalls' = ncalls + 1
    /\ IF already_prepared(image[o])
       THEN /\ PrepareReturns(o, name, {})
            /\ UNCHANGED tag
       ELSE IF ~TemplatesPresent(files)
       THEN /\ PrepareRaises(o, name, open_raises(files), {"open"})
            /\ UNCHANGED tag
       ELSE /\ build_context' =
                  [build_context EXCEPT ![o] = _create_build_context(files)]
            /\ position' =
                  [position EXCEPT ![o] =
                      seek(_create_build_context(files), 0)]
            /\ tag' = [tag EXCEPT ![o] =
                          _create_image_tag(_create_build_context(files))]
            /\ GoesTo(o, name, "lookup", {"open", "tar", "sha256"})
            /\ UNCHANGED <<elapsed, last_log_output, raced>>
    /\ UNCHANGED <<images, containers, logs, image, container, phase>>
    /\ UNCHANGED echoed
    /\ UNCHANGED auxVars

prepare(o, files) == prepare_entry(o, "prepare", files)

\* Seagoat.run: prepare(), then _run_container(), then the wait
run(o, files) ==
    /\ o \in Runners
    /\ Len(containers) + Cardinality(PendingLaunches) < MaxContainers
    /\ prepare_entry(o, "run", files)

\* (variant: the lookup is skipped, every call builds)
images_get_blind(store, t) == FALSE

\* docker_client.images.get(self.tag) finds an image (else ImageNotFound)
images_get(store, t) == t \in store

\* Seagoat._get_or_build_image: the lookup, and the build on ImageNotFound
_get_or_build_image(o) ==
    /\ pc[o] = "lookup"
    /\ IF images_get(images, tag[o])
       THEN /\ image' = [image EXCEPT ![o] = Some(tag[o])]
            /\ PrepareReturns(o, op[o], {"get"})
       ELSE /\ GoesTo(o, op[o], "build", {"get"})
            /\ raced' = [raced EXCEPT ![o] = FALSE]
            /\ UNCHANGED <<image, build_context, position, elapsed, last_log_output>>
    /\ UNCHANGED <<images, containers, logs, tag, container, phase, ncalls>>
    /\ UNCHANGED echoed
    /\ UNCHANGED auxVars

\* Another orchestrator p is between its lookup and its build of the tag
\* that o has just built
Overtaken(o, p) == p # o /\ pc[p] = "build" /\ tag[p] = tag[o]

\* io.BytesIO.read(): the bytes from the position of the stream to its end
read(context, pos) == DropPrefix(context, pos)

\* docker_client.images.build(fileobj=context, ...): the bytes the build of o
\* is sent, those the stream still has to give
sent_to_build(o) == read(build_context[o], position[o])

\* (variant: the build leaves nothing under the tag)
images_build_discarded(store, t, succeeds) == store

\* docker_client.images.build(fileobj=context, tag=t) as the runtime
\* performs it: the image store afterwards
images_build(store, t, succeeds) ==
    IF succeeds THEN store \cup {t} ELSE store

\* (variant: the BuildError is logged and not raised again)
build_raises_swallowed(succeeds) == "ok"

\* What _build_image raises: errors.BuildError is logged and raised again
build_raises(succeeds) == IF succeeds THEN "ok" ELSE "BuildError"

\* Seagoat._build_image: docker_client.images.build(...), which either
\* stores the image under the tag or raises BuildError
_build_image(o, succeeds) ==
    /\ pc[o] = "build"
    /\ images' = images_build(images, tag[o], succeeds)
    /\ IF build_raises(succeeds) = "ok"
       THEN /\ image' = [image EXCEPT ![o] = Some(tag[o])]
            /\ pc' = [pc EXCEPT ![o] = IF op[o] = "run" THEN "launch" ELSE "idle"]
            /\ op' = [op EXCEPT ![o] = IF op[o] = "run" THEN "run" ELSE "none"]
            /\ Step(o, op[o], IF op[o] = "run" THEN "pending" ELSE "ok",
                    {"build"})
            /\ build_context' = [build_context EXCEPT ![o] = << >>]
            /\ position' = [position EXCEPT ![o] = 0]
            /\ raced' = [p \in Orchs |->
                            IF p = o THEN FALSE
                            ELSE raced[p] \/ (succeeds /\ Overtaken(o, p))]
            /\ UNCHANGED <<elapsed, last_log_output>>
       ELSE /\ PrepareRaises(o, op[o], build_raises(succeeds), {"build"})
            /\ UNCHANGED image
    /\ UNCHANGED <<containers, logs, tag, container, phase, ncalls>>
    /\ UNCHANGED echoed
    /\ UNCHANGED auxVars

\* Seagoat._run_container, and the entry of _wait_for_analysis_completion
\* (start_time and last_log_output are set before the first poll).  The new
\* container has written nothing yet; self.container now refers to it.
_run_container(o) ==
    /\ pc[o] = "launch"
    /\ IF tag[o] \notin images
       THEN /\ Ends(o, "run", "ImageNotFound", {"run"})
            /\ UNCHANGED <<containers, logs, container, phase, echoed>>
       ELSE /\ containers' = Append(containers,
                   [image |-> tag[o], status |-> "running", owner |-> o])
            /\ logs' = [logs EXCEPT ![o] = << >>]
            /\ container' = [container EXCEPT ![o] = Len(containers) + 1]
            /\ elapsed' = [elapsed EXCEPT ![o] = 0]
            /\ last_log_output' = [last_log_output EXCEPT ![o] = << >>]
            /\ echoed' = [echoed EXCEPT ![o] = << >>]
            /\ phase' = [phase EXCEPT ![o] = "RUNNING"]
            /\ GoesTo(o, "run", "wait", {"run"})
            /\ UNCHANGED <<build_context, position, raced>>
    /\ UNCHANGED <<images, image, tag, ncalls>>
    /\ UNCHANGED auxVars

\* _wait_for_analysis_completion: the loop test, container.reload() and the
\* status test of one poll
\* (variant: the loop test is off by one)
within_timeout_inclusive(el) == el <= TimeoutWindow

\* (variant: the loop has no deadline)
within_timeout_unbounded(el) == TRUE

\* while time.time() - start_time < timeout
within_timeout(el) == el < TimeoutWindow

\* (variant: the status test is missing)
stopped_unnoticed(status) == FALSE

\* if self.container.status != 'running'
stopped(status) == status # "running"

wait_reload(o) ==
    /\ pc[o] = "wait"
    /\ IF ~within_timeout(elapsed[o])
       THEN Ends(o, "run", "TimeoutError", {}) /\ PhaseAfterWait(o, "TimeoutError")
       ELSE IF containers[container[o]].status = "removed"
       THEN Ends(o, "run", "NotFound", {"reload"}) /\ PhaseAfterWait(o, "NotFound")
       ELSE IF stopped(containers[container[o]].status)
       THEN /\ Ends(o, "run", "ContainerStopped", {"reload", "logs"})
            /\ PhaseAfterWait(o, "ContainerStopped")
       ELSE /\ GoesTo(o, "run", "logs", {"reload"})
            /\ UNCHANGED <<build_context, position, elapsed, last_log_output, raced,
                           phase>>
    /\ UNCHANGED <<images, containers, logs, image, tag, container, ncalls>>
    /\ UNCHANGED echoed
    /\ UNCHANGED auxVars

\* (variant: no diff, every poll prints the whole output)
new_logs_whole(all_logs, last) == all_logs

\* new_logs = all_logs[len(last_log_output):]
new_logs_of(all_logs, last) == DropPrefix(all_logs, Len(last))

\* _wait_for_analysis_completion: container.logs(), the diff against the
\* output seen so far and its echo, the marker test and the sleep of one
\* poll
wait_logs(o, delay) ==
    LET c        == containers[container[o]]
        all_logs == logs[o]
        new_logs == new_logs_of(all_logs, last_log_output[o])
    IN  /\ pc[o] = "logs"
        /\ IF c.status = "removed"
           THEN /\ Ends(o, "run", "NotFound", {"logs"})
                /\ PhaseAfterWait(o, "NotFound")
                /\ UNCHANGED echoed
           ELSE IF Contains(all_logs, ANALYSIS_COMPLETE_MESSAGE)
           THEN /\ echoed' = [echoed EXCEPT ![o] = @ \o new_logs]
                /\ Ends(o, "run", "ok", {"logs"})
                /\ PhaseAfterWait(o, "ok")
           ELSE /\ echoed' = [echoed EXCEPT ![o] = @ \o new_logs]
                /\ last_log_output' =
                      IF new_logs # << >>
                      THEN [last_log_output EXCEPT ![o] = all_logs]
                      ELSE last_log_output
                /\ elapsed' = [elapsed EXCEPT ![o] =
                                  Min(@ + delay, TimeoutWindow)]
                /\ GoesTo(o, "run", "wait", {"logs", "sleep"})
                /\ UNCHANGED <<build_context, position, raced, phase>>
        /\ UNCHANGED <<images, containers, logs, image, tag, container,
                       ncalls>>
        /\ UNCHANGED auxVars

\* container.exec_run(["seagoat", query]) as the runtime performs it, and
\* what search() makes of it
exec_run(cs, id, exit_code) ==
    CASE cs[id].status = "removed" -> "NotFound"
      [] cs[id].status = "exited"  -> "APIError"
      [] OTHER -> IF exit_code = 0 THEN "ok" ELSE "ok_empty"

\* What the one-shot query command can print: nothing, or one line of a hit
ExecOutputs == {<< >>, <<"a", ":", "1", ":", "x", Newline>>}

\* How the command can end (exec_result): with exit code 0 and either
\* output, or with a non-zero exit code and an output that would parse
ExecResults ==
    {[exit_code |-> 0, output |-> out] : out \in ExecOutputs}
        \cup {[exit_code |-> 1, output |-> <<"a", ":", "1", ":", "x", Newline>>]}

\* How Seagoat.search ends: the guard on self.container, then what
\* container.exec_run raises or returns
search_outcome(o, exit_code) ==
    IF container[o] = NoContainer THEN "NotReady"
    ELSE exec_run(containers, container[o], exit_code)

search_calls(o) == IF container[o] = NoContainer THEN {} ELSE {"exec"}

\* (variant: the output is parsed whatever the exit code)
search_returns_parsed(exit_code, out) == _parse_search_results(out)

\* if exec_result.exit_code != 0: return []; else the parsed output
search_returns(exit_code, out) ==
    IF exit_code # 0 THEN << >> ELSE _parse_search_results(out)

\* Seagoat.search: the guard on self.container, then container.exec_run
search(o, exit_code, out) ==
    /\ CanSearch(o)
    /\ ncalls' = ncalls + 1
    /\ Returns(o, "search", search_outcome(o, exit_code), search_calls(o),
               IF search_outcome(o, exit_code) \in {"ok", "ok_empty"}
               THEN List(search_returns(exit_code, out))
               ELSE NoValue)
    /\ UNCHANGED <<images, containers, logs, image, tag, container, pc, op,
                   build_context, position, elapsed, last_log_output, raced, phase>>
    /\ UNCHANGED echoed
    /\ UNCHANGED auxVars

\* What the try block of Repository.search raises: the exception of
\* Seagoat.search, else the ValidationError of a hit that does not validate
\* (SearchResult.model_validate is pydantic's; whether a hit passes is left
\* open)
try_raises(inner, hits, validates) ==
    IF inner \notin {"ok", "ok_empty"} THEN inner
    ELSE IF hits # << >> /\ ~validates THEN "ValidationError"
    ELSE "ok"

\* (variant: no except clause)
Repository_search_raises_uncaught(raised) == raised

\* except Exception as e: nothing leaves Repository.search
Repository_search_raises(raised) == "ok"

\* return SearchResultsOutput(results=parsed_results), or in the except
\* clause SearchResultsOutput(results=[], error=str(e))
Repository_search_returns(raised, hits) ==
    IF raised = "ok"
    THEN SearchResultsOutput(hits, None)
    ELSE SearchResultsOutput(<< >>, Some(raised))

\* Repository.search: Seagoat.search and the validation of its hits inside
\* try/except
Repository_search(o, exit_code, out, validates) ==
    LET inner  == search_outcome(o, exit_code)
        hits   == search_returns(exit_code, out)
        raised == try_raises(inner, hits, validates)
    IN  /\ o \in Runners
        /\ CanCall(o)
        /\ ncalls' = ncalls + 1
        /\ Returns(o, "Repository.search", Repository_search_raises(raised),
                   search_calls(o),
                   IF Repository_search_raises(raised) = "ok"
                   THEN Repository_search_returns(raised, hits)
                   ELSE NoValue)
        /\ UNCHANGED <<images, containers, logs, image, tag, container, pc,
                       op, build_context, position, elapsed, last_log_output, raced,
                       phase>>
        /\ UNCHANGED echoed
        /\ UNCHANGED auxVars

\* container.stop() as the runtime performs it: the containers afterwards
stop(cs, id) ==
    IF cs[id].status = "running"
    THEN [cs EXCEPT ![id].status = "exited"]
    ELSE cs

\* What container.stop() raises: NotFound when the container is gone
stop_raises(cs, id) ==
    IF cs[id].status = "removed" THEN "NotFound" ELSE "ok"

\* (variant: no except clause)
cleanup_outcome_unguarded(raised) == raised

\* try: ... except errors.NotFound: pass
cleanup_outcome(raised) == IF raised = "NotFound" THEN "ok" ELSE raised

\* (variant: cleanup() removes the image as well)
images_removed_at_cleanup(store, t) == store \ {t}

\* The image store after cleanup(): "The image is intentionally not removed
\* to allow caching across runs."
images_after_cleanup(store, t) == store

\* Seagoat.cleanup: stop the container if there is one; container.remove()
\* is commented out
cleanup(o) ==
    /\ CanCall(o)
    /\ ncalls' = ncalls + 1
    /\ IF container[o] # NoContainer
       THEN /\ containers' = stop(containers, container[o])
            /\ phase' = [phase EXCEPT ![o] = "STOPPED"]
            /\ Step(o, "cleanup",
                    cleanup_outcome(stop_raises(containers, container[o])),
                    {"stop"})
       ELSE /\ Step(o, "cleanup", "ok", {})
            /\ UNCHANGED <<containers, phase>>
    /\ images' = images_after_cleanup(images, tag[o])
    /\ UNCHANGED <<logs, image, tag, container, pc, op, build_context, position,
                   elapsed, last_log_output, raced>>
    /\ UNCHANGED echoed
    /\ UNCHANGED auxVars

(***************************************************************************)
(* The environment: the containers and the other users of the runtime.     *)
(***************************************************************************)

\* The owner of container id is waiting for its analysis to complete
Polled(id) ==
    /\ container[containers[id].owner] = id
    /\ pc[containers[id].owner] \in {"wait", "logs"}

\* A running container writes one more character to its output (the output
\* is read by the wait only, so only output written during a wait matters)
ContainerWrites(id, ch) ==
    /\ containers[id].status = "running"
    /\ Polled(id)
    /\ Len(logs[containers[id].owner]) < MaxLog
    /\ logs' = [logs EXCEPT ![containers[id].owner] = Append(@, ch)]
    /\ UNCHANGED <<images, containers, ncalls>>
    /\ UNCHANGED orchVars
    /\ UNCHANGED auxVars

\* A running container's process ends (it finishes or crashes)
ContainerExits(id) ==
    /\ containers[id].status = "running"
    /\ containers' = [containers EXCEPT ![id].status = "exited"]
    /\ UNCHANGED <<images, logs, ncalls>>
    /\ UNCHANGED orchVars
    /\ UNCHANGED auxVars

\* Someone else removes the container from the runtime
ContainerRemoved(id) ==
    /\ containers[id].status # "removed"
    /\ containers' = [containers EXCEPT ![id].status = "removed"]
    /\ UNCHANGED <<images, logs, ncalls>>
    /\ UNCHANGED orchVars
    /\ UNCHANGED auxVars

Next ==
    \/ \E o \in Orchs, files \in FileStates : prepare(o, files)
    \/ \E o \in Orchs, files \in FileStates : run(o, files)
    \/ \E o \in Orchs : _get_or_build_image(o)
    \/ \E o \in Orchs, succeeds \in BOOLEAN : _build_image(o, succeeds)
    \/ \E o \in Orchs : _run_container(o)
    \/ \E o \in Orchs : wait_reload(o)
    \/ \E o \in Orchs, delay \in PollInterval..MaxDelay : wait_logs(o, delay)
    \/ \E o \in Orchs, r \in ExecResults :
          search(o, r.exit_code, r.output)
    \/ \E o \in Orchs, r \in ExecResults, validates \in BOOLEAN :
          Repository_search(o, r.exit_code, r.output, validates)
    \/ \E o \in Orchs : cleanup(o)
    \/ \E id \in 1..Len(containers), ch \in LogChars : ContainerWrites(id, ch)
    \/ \E id \in 1..Len(containers) : ContainerExits(id)
    \/ \E id \in 1..Len(containers) : ContainerRemoved(id)

Spec == Init /\ [][Next]_vars

\* One step of the wait of o, whichever is due
_wait_for_analysis_completion(o) ==
    \/ wait_reload(o)
    \/ \E delay \in PollInterval..MaxDelay : wait_logs(o, delay)

\* The thread inside run() keeps running: a poll that can be made is made
\* (every runtime call of the wait returns, and time.sleep returns)
FairSpec ==
    /\ Spec
    /\ \A o \in Runners : WF_vars(_wait_for_analysis_completion(o))

(***************************************************************************)
(* One call of Seagoat._parse_search_results, step by step: the strip and  *)
(* split of the raw text, one iteration of the loop per line, and the      *)
(* flush of the pending hit before the return.                             *)
(***************************************************************************)

\* <file>:<line_number>:<code_text>
Line(file, number, code) == file \o <<Colon>> \o number \o <<Colon>> \o code

\* Lines the raw output is made of: hits of two files with consecutive,
\* repeated, distant, zero and negative numbers, code with a colon, empty
\* code, code ending in a blank, a number written with a blank, and lines
\* the parser skips (blank, no colon, one colon, no number)
SampleLines ==
    {Line(<<"a">>, <<"1">>, <<"x">>),
     Line(<<"a">>, <<"2">>, <<"y">>),
     Line(<<"a">>, <<"3">>, <<"x">>),
     Line(<<"b">>, <<"2">>, <<"y">>),
     Line(<<"a">>, <<"1", "0">>, <<"x">>),
     Line(<<"a">>, <<"0">>, <<"x">>),
     Line(<<"a">>, <<"-", "1">>, <<"x">>),
     Line(<<"a">>, <<"x">>, <<"y">>),
     Line(<<"a">>, <<"1">>, <<"x", Colon, "y">>),
     Line(<<"a">>, <<"2">>, << >>),
     Line(<<"a">>, <<"2">>, <<"y", " ">>),
     Line(<<"a">>, <<" ", "2">>, <<"y">>),
     << >>,
     <<"a">>,
     <<"a", Colon, "1">>}

\* The raw texts handed to the parser: up to MaxLines lines joined by line
\* breaks
RawOutputs ==
    {join(Newline, ls) :
        ls \in UNION {[1..n -> SampleLines] : n \in 0..MaxLines}}

ParserInit ==
    /\ InitRuntime
    /\ UtilIdle
    /\ KeepAliveIdle
    /\ output \in RawOutputs
    /\ lines = << >>
    /\ current_chunk = None
    /\ results = << >>
    /\ parsing = "called"

\* results = [], current_chunk = None, output.strip().split('\n')
parse_split ==
    /\ parsing = "called"
    /\ lines' = output_lines(output)
    /\ results' = << >>
    /\ current_chunk' = None
    /\ parsing' = "loop"
    /\ UNCHANGED <<utilVars, keepaliveVars>>
    /\ UNCHANGED <<images, containers, logs, ncalls, orchVars, output>>

\* one iteration of `for line in ...`
parse_line ==
    LET acc == loop_body([results |-> results,
                          current_chunk |-> current_chunk], Head(lines))
    IN  /\ parsing = "loop"
        /\ lines # << >>
        /\ results' = acc.results
        /\ current_chunk' = acc.current_chunk
        /\ lines' = Tail(lines)
        /\ UNCHANGED <<utilVars, keepaliveVars>>
        /\ UNCHANGED <<images, containers, logs, ncalls, orchVars, output,
                       parsing>>

\* after the loop: if current_chunk: results.append(current_chunk); return
parse_flush ==
    /\ parsing = "loop"
    /\ lines = << >>
    /\ results' = flushed(results, current_chunk)
    /\ parsing' = "returned"
    /\ UNCHANGED <<utilVars, keepaliveVars>>
    /\ UNCHANGED <<images, containers, logs, ncalls, orchVars, output,
                   lines, current_chunk>>

ParserNext == parse_split \/ parse_line \/ parse_flush

ParserSpec == ParserInit /\ [][ParserNext]_vars

\* The step-by-step call returns what the function computes
ParseAgrees ==
    parsing = "returned" => results = _parse_search_results(output)

TypeOK ==
    /\ images \subseteq Seq(0..15)
    /\ \A o \in Orchs :
          /\ pc[o] \in {"idle", "lookup", "build", "launch", "wait", "logs"}
          /\ container[o] \in 0..Len(containers)
          /\ logs[o] \in Seq(LogChars) /\ Len(logs[o]) <= MaxLog
          /\ elapsed[o] \in 0..TimeoutWindow
          /\ phase[o] \in {"NEW", "RUNNING", "ANALYZED", "FAILED", "STOPPED"}
    /\ returned.kind \in {"None", "list", "SearchResultsOutput"}
    /\ parsing \in {"idle", "called", "loop", "returned"}
    /\ current_chunk \in {None} \cup {Some(results[i]) : i \in 1..Len(results)}
           \/ parsing = "loop"

(***************************************************************************)
(* The utilities of Repository (src/repo_read_mcp/repository.py) and       *)
(* safe_path_join (lib/utils.py): pure functions of their arguments and of *)
(* the file system they read.  UtilSpec draws one call from a set of       *)
(* arguments and applies the function.                                     *)
(***************************************************************************)
MaxComponents == 2      \* path components handed to safe_path_join
MaxFileLines  == 2      \* lines of a file read by read_file_lines
MaxWidth      == 3      \* entries of a directory of a regular tree
MaxLevels     == 4      \* levels of directories of a tree
MaxDepth      == 4      \* largest `depth` given to tree_dir

Slash  == "/"
Dot    == <<".">>
DotDot == <<".", ".">>

\* the current directory, which resolve() puts before a relative path
Cwd == << <<"w">> >>

Max(a, b) == IF a > b THEN a ELSE b

\* pathlib.Path(text) on POSIX: the segments between slashes without the
\* empty ones and '.', and whether the path is anchored at the root
Path(text) ==
    [absolute |-> text # << >> /\ Head(text) = Slash,
     parts    |-> SelectSeq(split(text, Slash, -1),
                            LAMBDA seg : seg \notin {<< >>, Dot})]

\* Path.joinpath(*others): an absolute component discards what precedes it
RECURSIVE joinpath(_, _)
joinpath(p, others) ==
    IF others = << >> THEN p
    ELSE joinpath(IF Head(others).absolute THEN Head(others)
                  ELSE [absolute |-> p.absolute,
                        parts    |-> p.parts \o Head(others).parts],
                  Tail(others))

\* The walk of resolve(strict=False) where nothing is a symbolic link: '..'
\* steps to the parent, and the parent of the root is the root
RECURSIVE collapse(_, _)
collapse(done, rest) ==
    IF rest = << >> THEN done
    ELSE IF Head(rest) = DotDot
    THEN collapse(SubSeq(done, 1, Len(done) - 1), Tail(rest))
    ELSE collapse(Append(done, Head(rest)), Tail(rest))

\* Path.resolve(strict=False)
resolve(p) ==
    [absolute |-> TRUE,
     parts    |-> collapse(<< >>,
                           (IF p.absolute THEN << >> ELSE Cwd) \o p.parts)]

\* (variant: the containment test is missing)
relative_to_raises_never(target_path, base_path) == FALSE

\* target_path.relative_to(base_path) raises ValueError unless the parts of
\* base_path begin those of target_path
relative_to_raises(target_path, base_path) ==
    ~ /\ Len(base_path.parts) <= Len(target_path.parts)
      /\ SubSeq(target_path.parts, 1, Len(base_path.parts)) = base_path.parts

\* What a utility hands back: a path, or the exception it raises
Returned(path) == [outcome |-> "ok", path |-> path]
Raised(exception) == [outcome |-> exception, path |-> << >>]

\* safe_path_join(base, *paths)
safe_path_join(base, paths) ==
    LET base_path   == resolve(Path(base))
        target_path == resolve(joinpath(base_path,
                                   [i \in 1..Len(paths) |-> Path(paths[i])]))
    IN  IF relative_to_raises(target_path, base_path)
        THEN Raised("ValueError")
        ELSE Returned(target_path.parts)

\* ''.join(parts)
RECURSIVE join_all(_)
join_all(parts) ==
    IF parts = << >> THEN << >> ELSE Head(parts) \o join_all(Tail(parts))

\* s[i:j] for 0 <= i
slice(s, i, j) == SubSeq(s, i + 1, Min(j, Len(s)))

FileChunk(start_line, end_line, content, error) ==
    [start_line |-> start_line, end_line |-> end_line, content |-> content,
     error |-> error]

\* start = max(1, min(start_line, len(lines)))
start_of(start_line, n) == Max(1, Min(start_line, n))

\* end = max(start, min(end_line, len(lines)))
end_of(start, end_line, n) == Max(start, Min(end_line, n))

\* Repository.read_file_lines on a file that open() finds or does not find;
\* `file.lines` is what readlines() returns
read_file_lines(file, start_line, end_line) ==
    IF ~file.exists
    THEN FileChunk(0, 0, << >>, "File not found")
    ELSE LET start == start_of(start_line, Len(file.lines))
             end   == end_of(start, end_line, Len(file.lines))
         IN  FileChunk(start, end,
                       join_all(slice(file.lines, start - 1, end)), "None")

\* max_entries = 100
max_entries == 100

\* A regular directory tree: an entry `levels` or more levels below the root
\* is a file, every other one a directory of `width` entries.  An entry is
\* named by the indices that lead to it from the root.
is_dir(tree, path) == Len(path) < tree.levels

\* os.scandir(path), in the order the system yields the entries
scandir(tree, path) == [i \in 1..tree.width |-> Append(path, i)]

\* (variant: the depth test is off by one)
too_deep_by_two(current_depth, depth) == current_depth > depth + 1

\* if current_depth > depth: return
too_deep(current_depth, depth) == current_depth > depth

\* _walk(current_path, current_depth) of tree_dir, and its `for entry in it`
\* over the entries lo..hi, left to right (the range is halved so that the
\* evaluation does not nest once per entry); `acc` is the list `results`
RECURSIVE _walk(_, _, _, _, _)
RECURSIVE walk_entries(_, _, _, _, _, _, _)
_walk(acc, tree, depth, current_path, current_depth) ==
    IF Len(acc) >= max_entries THEN acc
    ELSE IF too_deep(current_depth, depth) THEN acc
    ELSE walk_entries(acc, tree, depth, scandir(tree, current_path), 1,
                      tree.width, current_depth)

walk_entries(acc, tree, depth, entries, lo, hi, current_depth) ==
    IF Len(acc) >= max_entries \/ lo > hi THEN acc
    ELSE IF lo < hi
    THEN walk_entries(
             walk_entries(acc, tree, depth, entries, lo, (lo + hi) \div 2,
                          current_depth),
             tree, depth, entries, (lo + hi) \div 2 + 1, hi, current_depth)
    ELSE IF is_dir(tree, entries[lo])
    THEN _walk(Append(acc, entries[lo]), tree, depth, entries[lo],
               current_depth + 1)
    ELSE Append(acc, entries[lo])

DirTreeOutput(entries, error) == [tree |-> entries, error |-> error]

\* Repository.tree_dir(dir_path, depth) on a tree whose root safe_path_join
\* accepts
tree_dir(tree, depth) ==
    IF ~is_dir(tree, << >>)
    THEN DirTreeOutput(<< >>, "Directory not found")
    ELSE LET walked == _walk(<< << >> >>, tree, depth, << >>, 1)
         IN  DirTreeOutput(slice(walked, 0, max_entries), "None")

\* The arguments of the calls
Bases ==
    {<<"/", "a">>, <<"/", "a", "/", "b">>, <<"a">>, <<"/">>}

Components ==
    {<< >>, <<".">>, <<"a">>, <<"b">>, <<".", ".">>,
     <<".", ".", "/", ".", ".">>, <<".", ".", "/", "a">>,
     <<".", ".", "/", "b">>, <<"a", "/", ".", ".">>, <<"a", "/", "b">>,
     <<"/">>, <<"/", "a">>, <<"/", "a", "/", "b">>, <<"/", "b">>,
     <<"/", "a", "/", ".", ".", "/", "b">>}

FileLines == {<<"x", "\n">>, <<"y", "\n">>}

Files ==
    {[exists |-> FALSE, lines |-> << >>]} \cup
    {[exists |-> TRUE, lines |-> ls] :
        ls \in UNION {[1..n -> FileLines] : n \in 0..MaxFileLines}}

Trees ==
    [width  : (0..MaxWidth) \cup {max_entries - 1, max_entries,
                                  max_entries + 1},
     levels : 0..MaxLevels]

Calls ==
    [fn : {"safe_path_join"}, base : Bases,
     paths : UNION {[1..n -> Components] : n \in 0..MaxComponents}]
    \cup [fn : {"read_file_lines"}, file : Files,
          start_line : (-1)..(MaxFileLines + 1),
          end_line : (-1)..(MaxFileLines + 1)]
    \cup [fn : {"tree_dir"}, tree : Trees, depth : (-1)..MaxDepth]

UtilInit ==
    /\ InitRuntime
    /\ ParserIdle
    /\ KeepAliveIdle
    /\ call \in Calls
    /\ reply = None

UtilUnchanged ==
    UNCHANGED <<images, containers, logs, ncalls, orchVars, parserVars,
                keepaliveVars, call>>

safe_path_join_call ==
    /\ call.fn = "safe_path_join"
    /\ reply = None
    /\ reply' = Some(safe_path_join(call.base, call.paths))
    /\ UtilUnchanged

read_file_lines_call ==
    /\ call.fn = "read_file_lines"
    /\ reply = None
    /\ reply' = Some(read_file_lines(call.file, call.start_line,
                                     call.end_line))
    /\ UtilUnchanged

tree_dir_call ==
    /\ call.fn = "tree_dir"
    /\ reply = None
    /\ reply' = Some(tree_dir(call.tree, call.depth))
    /\ UtilUnchanged

UtilNext == safe_path_join_call \/ read_file_lines_call \/ tree_dir_call

UtilSpec == UtilInit /\ [][UtilNext]_vars

(***************************************************************************)
(* The handlers of the MCP tools (mcp.py) and their keepalive task         *)
(* (lib/fastmcp_progress_keepalive.py) on the asyncio event loop.  The     *)
(* loop runs one coroutine at a time, and a coroutine keeps the loop until *)
(* it awaits something that is not done.  Every handler is                 *)
(*     async with ProgressKeepAlive(ctx): return repository.<tool>(...)    *)
(* whose body is a synchronous call.                                       *)
(***************************************************************************)
MaxToolCalls == 2       \* tool calls the server handles
MaxBusy      == 2       \* longest a tool's body runs, in keepalive intervals

Tools == {"read_files", "read_file_lines", "read_dirs", "tree_dir", "search"}

\* tick < 1_000_000
TickWrap == 1000000

\* The event loop is free to run another coroutine: no handler is running
\* between two of its awaits
LoopFree == handler \in {"idle", "awaiting", "returned", "raised"}

\* The handler of tool t starts: ProgressKeepAlive.__aenter__ awaits
\* start_progress_keepalive, which creates the task (asyncio.create_task
\* schedules its first step) and returns without suspending
tool_call(t) ==
    /\ handler \in {"idle", "returned", "raised"}
    /\ ntools < MaxToolCalls
    /\ ntools' = ntools + 1
    /\ tool' = t
    /\ handler' = "entered"
    /\ task' = "scheduled"
    /\ must_cancel' = FALSE
    /\ tick' = 0
    /\ pings' = 0
    /\ busy' = 0
    /\ exc' = "none"
    /\ UNCHANGED <<images, containers, logs, ncalls, orchVars, parserVars,
                   utilVars>>

\* What the body raises: Repository.tree_dir calls safe_path_join outside
\* its try block, so a dir_path that escapes the project raises ValueError;
\* the other methods catch what they raise
body_raises(t, escapes) ==
    IF t = "tree_dir" /\ escapes THEN "ValueError" ELSE "none"

\* The body of the `async with`: repository.<tool>(...), a synchronous call
\* that takes `duration` and never gives the loop back
tool_body(duration, escapes) ==
    /\ handler = "entered"
    /\ busy' = duration
    /\ exc' = body_raises(tool, escapes)
    /\ handler' = "exiting"
    /\ UNCHANGED <<images, containers, logs, ncalls, orchVars, parserVars,
                   utilVars, tool, task, must_cancel, tick, pings, ntools>>

\* ProgressKeepAlive.__aexit__: self._task.cancel(), then `await self._task`
\* suspends the handler until the task is done
tool_exit ==
    /\ handler = "exiting"
    /\ must_cancel' = (task \in {"scheduled", "sleeping"})
    /\ handler' = "awaiting"
    /\ UNCHANGED <<images, containers, logs, ncalls, orchVars, parserVars,
                   utilVars, tool, task, tick, pings, busy, ntools, exc>>

\* One step of the task on the loop: a cancelled task gets CancelledError
\* thrown into its coroutine; else one turn of the `while True` of _loop,
\* up to its asyncio.sleep
_loop ==
    /\ LoopFree
    /\ task \in {"scheduled", "sleeping"}
    /\ IF must_cancel
       THEN /\ task' = "cancelled"
            /\ UNCHANGED <<tick, pings>>
       ELSE /\ tick' = IF tick < TickWrap THEN tick + 1 ELSE 1
            /\ pings' = pings + 1
            /\ task' = "sleeping"
    /\ UNCHANGED <<images, containers, logs, ncalls, orchVars, parserVars,
                   utilVars, tool, handler, must_cancel, busy, ntools,
                   exc>>

\* What `await self._task` raises in the handler once the task is done
awaited(t) == IF t = "cancelled" THEN "CancelledError" ELSE "none"

\* (variant: the await stands outside the `with`)
suppress_nothing(exception) == exception

\* with contextlib.suppress(asyncio.CancelledError): what leaves the block
suppress(exception) ==
    IF exception = "CancelledError" THEN "none" ELSE exception

\* `await self._task` ends with the task, its CancelledError is suppressed;
\* __aexit__ returns None, so the handler returns the result of the body or
\* raises what the body raised
tool_return ==
    /\ handler = "awaiting"
    /\ task = "cancelled"
    /\ exc' = IF suppress(awaited(task)) # "none"
                 THEN suppress(awaited(task)) ELSE exc
    /\ handler' = IF exc' = "none" THEN "returned" ELSE "raised"
    /\ UNCHANGED <<images, containers, logs, ncalls, orchVars, parserVars,
                   utilVars, tool, task, must_cancel, tick, pings, busy,
                   ntools>>

KeepAliveInit == InitRuntime /\ ParserIdle /\ UtilIdle /\ KeepAliveIdle

KeepAliveNext ==
    \/ \E t \in Tools : tool_call(t)
    \/ \E duration \in 0..MaxBusy, escapes \in BOOLEAN :
          tool_body(duration, escapes)
    \/ tool_exit
    \/ _loop
    \/ tool_return

KeepAliveSpec == KeepAliveInit /\ [][KeepAliveNext]_vars

(***************************************************************************)
(* Vocabulary of the properties.                                           *)
(***************************************************************************)

\* The Instances launched by o that exist in the runtime
Instances(o) ==
    {id \in 1..Len(containers) :
        containers[id].owner = o /\ containers[id].status # "removed"}

\* This step is a step of orchestrator o
StepOf(o) == event'.orch = o /\ (pc'[o] # pc[o] \/ ncalls' # ncalls)

\* This step is the start of a public call of o, one of `names`
CallStart(o, names) ==
    pc[o] = "idle" /\ ncalls' # ncalls /\ event'.orch = o /\ event'.op \in names

\* This step is a step of the environment
EnvStep == UNCHANGED <<orchVars, ncalls>>

(***************************************************************************)
(* C1.  search() called before the orchestrator has reached ANALYZED       *)
(* signals NotReady and performs no exec inside the Instance.              *)
(***************************************************************************)
C1_SearchBeforeAnalyzedIsNotReady ==
    \A o \in Orchs :
        (event.orch = o /\ event.op = "search" /\ phase[o] # "ANALYZED")
            => (event.outcome = "NotReady" /\ "exec" \notin event.calls)

(***************************************************************************)
(* C2.  At every moment at most one Instance launched by an orchestrator   *)
(* exists, and none before its first run().                                *)
(***************************************************************************)
C2_AtMostOneInstance ==
    \A o \in Orchs :
        /\ Cardinality(Instances(o)) <= 1
        /\ phase[o] = "NEW" => Instances(o) = {}

(***************************************************************************)
(* C3.  After cleanup() returns on an orchestrator that has launched an    *)
(* Instance, that Instance has been removed from the runtime and the       *)
(* orchestrator has zero Instances.                                        *)
(***************************************************************************)
C3_CleanupRemovesInstance ==
    \A o \in Orchs :
        (event.orch = o /\ event.op = "cleanup" /\ container[o] # NoContainer)
            => /\ containers[container[o]].status = "removed"
               /\ Instances(o) = {}

C5_TimeoutLeavesInstanceRunning ==
    [][\A o \in Orchs :
          /\ (pc[o] = "wait" /\ pc'[o] # "wait") =>
                IF elapsed[o] >= TimeoutWindow
                THEN /\ event' = [orch |-> o, op |-> "run",
                                  outcome |-> "TimeoutError", calls |-> {}]
                     /\ pc'[o] = "idle"
                     /\ containers' = containers
                     /\ container[o] # NoContainer
                     /\ container'[o] = container[o]
                ELSE event'.outcome # "TimeoutError"
          /\ (pc[o] = "logs" /\ pc'[o] = "wait") =>
                elapsed'[o] >= Min(elapsed[o] + PollInterval, TimeoutWindow)
          /\ container[o] # NoContainer => container'[o] # NoContainer
          /\ \A id \in 1..Len(containers) :
                (containers[id].status = "running"
                    /\ containers'[id].status # "running")
                  => (EnvStep \/ event'.op = "cleanup")
      ]_vars

\* run() has raised TimeoutError and the Instance is still running
C5_Witness ==
    /\ event.op = "run"
    /\ event.outcome = "TimeoutError"
    /\ pc[event.orch] = "idle"
    /\ containers[container[event.orch]].status = "running"

(***************************************************************************)
(* C6.  prepare() is idempotent: once self.image is set (a prepare() has   *)
(* succeeded), a later prepare(), called directly or through run(), does   *)
(* no packaging, no image lookup and no build, and image and tag never     *)
(* change again.                                                           *)
(***************************************************************************)
C6_PrepareIdempotent ==
    [][\A o \in Orchs :
          /\ (image[o] # None /\ CallStart(o, {"prepare", "run"})) =>
                /\ event'.calls = {}
                /\ images' = images
                /\ pc'[o] = IF event'.op = "run" THEN "launch" ELSE "idle"
          /\ image[o] # None => (image'[o] = image[o] /\ tag'[o] = tag[o])
      ]_vars

\* a prepare() on an orchestrator that was prepared already has returned
C6_Witness ==
    /\ event.op = "prepare"
    /\ event.outcome = "ok"
    /\ event.calls = {}
    /\ image[event.orch] # None

C8_BuildFailureSurfaces ==
    [][\A o \in Orchs :
          /\ (pc[o] = "build" /\ pc'[o] # "build") =>
                \/ /\ tag[o] \in images'
                   /\ image'[o] = Some(tag[o])
                   /\ event'.outcome \in {"ok", "pending"}
                \/ /\ images' = images
                   /\ image'[o] = None
                   /\ pc'[o] = "idle"
                   /\ event'.orch = o
                   /\ event'.outcome = "BuildError"
          /\ (image[o] = None /\ CallStart(o, {"prepare", "run"})) =>
                /\ "open" \in event'.calls
                /\ event'.outcome = "pending" => pc'[o] = "lookup"
          /\ (pc[o] = "lookup" /\ pc'[o] # "lookup" /\ tag[o] \notin images) =>
                pc'[o] = "build"
      ]_vars

\* a build has failed: BuildError raised, no image under the tag
C8_Witness ==
    /\ event.outcome = "BuildError"
    /\ event.calls = {"build"}
    /\ image[event.orch] = None
    /\ tag[event.orch] \notin images

(***************************************************************************)
(* C9.  No step removes an image from the image store.                     *)
(***************************************************************************)
C9_ImagesOnlyGrow == [][images \subseteq images']_vars

\* cleanup() has stopped an Instance and its image is still in the store
C9_Witness ==
    /\ event.op = "cleanup"
    /\ event.calls = {"stop"}
    /\ tag[event.orch] \in images

(***************************************************************************)
(* C10.  Every container is created from a tag that is in the image store, *)
(* by an orchestrator whose prepare() has set self.image; when packaging   *)
(* or building fails inside run(), run() ends there, no container is       *)
(* created and self.container is left as it was.                           *)
(***************************************************************************)
C10_LaunchOnlyAfterPrepare ==
    /\ [](\A id \in 1..Len(containers) : containers[id].image \in images)
    /\ [](\A o \in Orchs : phase[o] = "NEW" => container[o] = NoContainer)
    /\ [][/\ Len(containers') > Len(containers) =>
               \E o \in Orchs :
                   /\ pc[o] = "launch"
                   /\ image[o] = Some(tag[o])
                   /\ tag[o] \in images
                   /\ containers'[Len(containers')].image = tag[o]
                   /\ container'[o] = Len(containers')
          /\ \A o \in Orchs :
               (StepOf(o) /\ event'.op = "run"
                   /\ event'.outcome \in {"FileNotFoundError", "BuildError"})
                 => /\ pc'[o] = "idle"
                    /\ containers' = containers
                    /\ container'[o] = container[o]
       ]_vars

\* run() has failed in the build: no Instance, no reference
C10_Witness ==
    /\ event.op = "run"
    /\ event.outcome = "BuildError"
    /\ container[event.orch] = NoContainer
    /\ containers = << >>

(***************************************************************************)
(* C11.  When the one-shot query command exits with a non-zero code,       *)
(* search() raises nothing and returns an empty list; the output of the    *)
(* failed command is not parsed into hits, whatever it is.                 *)
(***************************************************************************)
C11_FailedQueryReturnsEmpty ==
    [][\A o \in Orchs, exit_code \in {0, 1}, out \in ExecOutputs :
          (/\ CallStart(o, {"search"})
           /\ exit_code # 0
           /\ container[o] # NoContainer
           /\ containers[container[o]].status = "running"
           /\ search(o, exit_code, out))
             => /\ event'.outcome = "ok_empty"
                /\ event'.calls = {"exec"}
                /\ returned' = List(<< >>)
      ]_vars

\* a search whose command failed has returned the empty list
C11_Witness ==
    /\ event.op = "search"
    /\ event.outcome = "ok_empty"
    /\ event.calls = {"exec"}
    /\ returned = List(<< >>)

(***************************************************************************)
(* C12.  Repository.search never raises: whatever the orchestrator's       *)
(* search does (hits, no hits, a failed command, NotReady, an error of the *)
(* runtime) and whether or not the hits validate, it returns a             *)
(* SearchResultsOutput; when an exception occurred the results are empty   *)
(* and the error is set, else the error is unset and the results are the   *)
(* hits.                                                                   *)
(***************************************************************************)
C12_RepositorySearchNeverRaises ==
    [][\A o \in Runners, exit_code \in {0, 1}, out \in ExecOutputs,
          validates \in BOOLEAN :
          (/\ CallStart(o, {"Repository.search"})
           /\ Repository_search(o, exit_code, out, validates)) =>
             /\ event'.outcome = "ok"
             /\ returned'.kind = "SearchResultsOutput"
             /\ IF \/ container[o] = NoContainer
                   \/ containers[container[o]].status # "running"
                   \/ /\ exit_code = 0
                      /\ _parse_search_results(out) # << >>
                      /\ ~validates
                THEN returned'.results = << >> /\ returned'.error # None
                ELSE /\ returned'.error = None
                     /\ returned'.results =
                           IF exit_code = 0 THEN _parse_search_results(out)
                           ELSE << >>
      ]_vars

\* Repository.search has turned a hit that does not validate into an empty
\* result with the error set
C12_Witness ==
    /\ event.op = "Repository.search"
    /\ event.outcome = "ok"
    /\ returned = SearchResultsOutput(<< >>, Some("ValidationError"))

(***************************************************************************)
(* C13.  prepare() builds the image without running anything: before any   *)
(* call image and container are unset; no step of a prepare() call creates *)
(* a container or changes a reference to one, and when prepare() returns,  *)
(* image is set, tag is non-empty and the image store holds an image under *)
(* that tag.                                                               *)
(***************************************************************************)
C13_PrepareBuildsWithoutRunning ==
    /\ [](ncalls = 0 =>
            \A o \in Orchs : image[o] = None /\ container[o] = NoContainer)
    /\ [][\A o \in Orchs :
            (StepOf(o) /\ event'.op = "prepare") =>
                /\ containers' = containers
                /\ container' = container
                /\ event'.outcome = "ok" =>
                      /\ pc'[o] = "idle"
                      /\ image'[o] # None
                      /\ tag'[o] # << >>
                      /\ tag'[o] \in images'
       ]_vars

\* prepare() has built the image on an orchestrator that has no container
C13_Witness ==
    /\ event.op = "prepare"
    /\ event.outcome = "ok"
    /\ event.calls = {"build"}
    /\ image[event.orch] = Some(tag[event.orch])
    /\ tag[event.orch] \in images
    /\ container[event.orch] = NoContainer

(***************************************************************************)
(* C14.  With a template missing (the Dockerfile template or the run       *)
(* script), a prepare() that has to package, called directly or through    *)
(* run(), raises FileNotFoundError at open(): no lookup and no build is    *)
(* made, the call ends there, and image, tag, the Instance reference, the  *)
(* image store and the containers are left as they were.                   *)
(***************************************************************************)
C14_MissingTemplateFailsPackaging ==
    [][\A o \in Orchs, files \in FileStates :
          (/\ CallStart(o, {"prepare", "run"})
           /\ image[o] = None
           /\ files.dockerfile = Missing \/ files.run_script = Missing
           /\ prepare(o, files) \/ run(o, files))
             => /\ event'.outcome = "FileNotFoundError"
                /\ event'.calls = {"open"}
                /\ pc'[o] = "idle"
                /\ image' = image
                /\ tag' = tag
                /\ container' = container
                /\ images' = images
                /\ containers' = containers
      ]_vars

\* run() has failed at the missing template: nothing prepared, no container
C14_Witness ==
    /\ event.op = "run"
    /\ event.outcome = "FileNotFoundError"
    /\ event.calls = {"open"}
    /\ image[event.orch] = None
    /\ container[event.orch] = NoContainer

(***************************************************************************)
(* Vocabulary of the properties of the result parser.                      *)
(***************************************************************************)

\* The loop is about to handle a line that passes its three tests while a
\* hit is being accumulated
NextLineMeetsHit ==
    /\ parsing = "loop"
    /\ lines # << >>
    /\ well_formed(Head(lines))
    /\ current_chunk # None

\* The hit a line starts on its own
HitOfLine(line) ==
    [file |-> file_of(line), start_line |-> line_num_of(line),
     end_line |-> line_num_of(line), code |-> code_of(line)]

RECURSIVE Concat(_)
Concat(seqs) ==
    IF seqs = << >> THEN << >> ELSE Head(seqs) \o Concat(Tail(seqs))

\* The (file, line number) pairs a hit stands for, in order
LinesOf(hit) ==
    [i \in 1..(hit.end_line - hit.start_line + 1) |->
        <<hit.file, hit.start_line + i - 1>>]

Covered(hits) == Concat([i \in 1..Len(hits) |-> LinesOf(hits[i])])

\* The lines of the stripped output the loop has handled so far
Handled ==
    SubSeq(output_lines(output), 1, Len(output_lines(output)) - Len(lines))

\* The (file, line number) pairs of the well-formed lines among ls, in order
Keys(ls) ==
    LET wf == SelectSeq(ls, well_formed)
    IN  [i \in 1..Len(wf) |-> <<file_of(wf[i]), line_num_of(wf[i])>>]

\* The fields of a line read off the positions of its first two colons
ColonsAt(line) == {i \in 1..Len(line) : line[i] = Colon}
FirstColon(line) == CHOOSE i \in ColonsAt(line) : \A j \in ColonsAt(line) : i <= j
SecondColon(line) ==
    CHOOSE i \in ColonsAt(line) \ {FirstColon(line)} :
        \A j \in ColonsAt(line) \ {FirstColon(line)} : i <= j
BeforeFirstColon(line) == SubSeq(line, 1, FirstColon(line) - 1)
BetweenColons(line) ==
    SubSeq(line, FirstColon(line) + 1, SecondColon(line) - 1)
AfterSecondColon(line) == SubSeq(line, SecondColon(line) + 1, Len(line))

HasFields(line) ==
    Cardinality(ColonsAt(line)) >= 2 /\ int(BetweenColons(line)) # None

\* The hits are made of the fields of the lines ls that have them: the files
\* and numbers of the hits are those before and between the first two
\* colons, their code is the text after the second colon, line by line
FieldsKept(ls, hits) ==
    LET fl == SelectSeq(ls, HasFields)
    IN  /\ Covered(hits) =
              [i \in 1..Len(fl) |->
                  <<BeforeFirstColon(fl[i]), int(BetweenColons(fl[i]))[1]>>]
        /\ Concat([i \in 1..Len(hits) |-> split(hits[i].code, Newline, -1)])
              = [i \in 1..Len(fl) |-> AfterSecondColon(fl[i])]

\* The split holds of the lines the loop sees, those of the stripped output
FieldsKeptAfterStrip ==
    parsing = "returned" => FieldsKept(output_lines(output), results)

(***************************************************************************)
(* C15.  Parser contiguity merge: a well-formed line with the file of the  *)
(* current hit and the number end_line + 1 extends that hit: nothing is    *)
(* emitted, end_line advances by one and the code of the line is appended  *)
(* after one line break.  'a:1:x:y' followed by 'a:2:y' gives exactly one  *)
(* hit, lines 1 to 2.                                                      *)
(***************************************************************************)
C15_ContiguityMerge ==
    /\ [][(/\ NextLineMeetsHit
            /\ file_of(Head(lines)) = current_chunk[1].file
            /\ line_num_of(Head(lines)) = current_chunk[1].end_line + 1)
              => /\ results' = results
                 /\ current_chunk' =
                       Some([file       |-> current_chunk[1].file,
                             start_line |-> current_chunk[1].start_line,
                             end_line   |-> current_chunk[1].end_line + 1,
                             code       |-> current_chunk[1].code
                                              \o <<Newline>>
                                              \o code_of(Head(lines))])
          ]_vars
    /\ []((/\ parsing = "returned"
           /\ output = <<"a", Colon, "1", Colon, "x", Colon, "y", Newline,
                          "a", Colon, "2", Colon, "y">>)
             => results = << [file |-> <<"a">>, start_line |-> 1,
                              end_line |-> 2,
                              code |-> <<"x", Colon, "y", Newline, "y">>] >>)

\* three consecutive lines of one file have been merged into one hit
C15_Witness ==
    /\ parsing = "returned"
    /\ Len(results) = 1
    /\ results[1].start_line = 1
    /\ results[1].end_line = 3
    /\ results[1].code = <<"x", Newline, "y", Newline, "x">>

(***************************************************************************)
(* C16.  Parser gap handling: a well-formed line with the file of the      *)
(* current hit whose number is not end_line + 1 (a gap, the same number, a *)
(* smaller number) is never merged: the current hit is emitted and a new   *)
(* hit starts with start_line = end_line = the number of the line.         *)
(***************************************************************************)
C16_GapStartsNewHit ==
    [][(/\ NextLineMeetsHit
        /\ file_of(Head(lines)) = current_chunk[1].file
        /\ line_num_of(Head(lines)) # current_chunk[1].end_line + 1)
          => /\ results' = Append(results, current_chunk[1])
             /\ current_chunk' = Some(HitOfLine(Head(lines)))
             /\ current_chunk'[1].start_line = line_num_of(Head(lines))
             /\ current_chunk'[1].end_line = line_num_of(Head(lines))
      ]_vars

\* lines 1 and 3 of one file have given two hits
C16_Witness ==
    /\ parsing = "returned"
    /\ output = <<"a", Colon, "1", Colon, "x", Newline,
                   "a", Colon, "3", Colon, "x">>
    /\ Len(results) = 2
    /\ results[1].end_line = 1
    /\ results[2].start_line = 3

C18_FirstSeenOrder ==
    /\ parsing = "loop" =>
          Covered(results \o (IF current_chunk = None THEN << >>
                               ELSE <<current_chunk[1]>>))
              = Keys(Handled)
    /\ parsing = "returned" =>
          /\ Covered(results) = Keys(output_lines(output))
          /\ \A i \in 1..Len(results) : LinesOf(results[i]) # << >>

\* three hits have been returned in the order of their lines
C18_Witness ==
    /\ parsing = "returned"
    /\ Len(results) = 3
    /\ results[1].file = <<"a">> /\ results[1].start_line = 1
    /\ results[2].file = <<"b">>
    /\ results[3].file = <<"a">> /\ results[3].start_line = 3

(***************************************************************************)
(* C19.  Every hit the parser returns has start_line >= 1 and              *)
(* end_line >= start_line, whatever the raw output.                        *)
(***************************************************************************)
C19_HitLineNumbers ==
    \A i \in 1..Len(results) :
        /\ results[i].start_line >= 1
        /\ results[i].end_line >= results[i].start_line

(***************************************************************************)
(* C20.  Each line of the raw output is split on its first two colons      *)
(* only: the file is the text before the first colon, the line number the  *)
(* text between the two, the code everything after the second colon, kept  *)
(* intact.                                                                 *)
(***************************************************************************)
C20_SplitOnFirstTwoColons ==
    parsing = "returned" => FieldsKept(split(output, Newline, -1), results)

(***************************************************************************)
(* C21.  Cache sensitivity (different build contexts never share a tag) is *)
(* a statement about SHA-256 cut to TagHashLen hex digits; hexdigest above *)
(* is a stand-in of it, so no formula over this model states it.           *)
(***************************************************************************)

\* s is a prefix of t
IsPrefix(s, t) == Len(s) <= Len(t) /\ SubSeq(t, 1, Len(s)) = s

\* The poll of o that this step belongs to read the output of its container
ReadsOutput(o) ==
    /\ pc[o] \in {"wait", "logs"}
    /\ StepOf(o)
    /\ "logs" \in event'.calls

(***************************************************************************)
(* C26.  The wait ends as ANALYZED (run() returns normally) whenever a     *)
(* poll reads a cumulative output that contains the completion marker, and *)
(* it ends as FAILED only when the Instance is observed not active while   *)
(* the marker has not appeared in its cumulative output.                   *)
(***************************************************************************)
C26_MarkerDecidesOutcome ==
    [][\A o \in Orchs :
          /\ (ReadsOutput(o)
                /\ Contains(logs[o], ANALYSIS_COMPLETE_MESSAGE))
               => (event'.outcome = "ok" /\ phase'[o] = "ANALYZED")
          /\ (pc[o] \in {"wait", "logs"} /\ phase'[o] = "FAILED")
               => /\ containers[container[o]].status # "running"
                  /\ ~Contains(logs[o], ANALYSIS_COMPLETE_MESSAGE)
      ]_vars

(***************************************************************************)
(* C27.  When the Instance has stopped before the completion marker        *)
(* appeared, the next poll of run() raises the instance-failed error       *)
(* without sleeping until the deadline, the orchestrator keeps its         *)
(* reference to the Instance, and a later cleanup() stops that Instance.   *)
(***************************************************************************)
C27_StoppedInstanceFailsAtNextPoll ==
    [][\A o \in Orchs :
          /\ (/\ pc[o] = "wait"
              /\ StepOf(o)
              /\ elapsed[o] < TimeoutWindow
              /\ containers[container[o]].status = "exited"
              /\ ~Contains(logs[o], ANALYSIS_COMPLETE_MESSAGE))
               => /\ event' = [orch |-> o, op |-> "run",
                               outcome |-> "ContainerStopped",
                               calls |-> {"reload", "logs"}]
                  /\ pc'[o] = "idle"
                  /\ phase'[o] = "FAILED"
                  /\ container[o] # NoContainer
                  /\ container'[o] = container[o]
          /\ (CallStart(o, {"cleanup"}) /\ phase[o] = "FAILED")
               => /\ container[o] # NoContainer
                  /\ "stop" \in event'.calls
                  /\ containers'[container[o]].status # "running"
      ]_vars

\* run() has raised the instance-failed error for an Instance that stopped
\* without the marker, and still refers to it
C27_Witness ==
    /\ event.op = "run"
    /\ event.outcome = "ContainerStopped"
    /\ phase[event.orch] = "FAILED"
    /\ container[event.orch] # NoContainer
    /\ containers[container[event.orch]].status = "exited"
    /\ ~Contains(logs[event.orch], ANALYSIS_COMPLETE_MESSAGE)

(***************************************************************************)
(* C28.  Provided every runtime call returns, the polling loop of run()    *)
(* terminates, with a normal return (marker seen), the instance-failed     *)
(* error or TimeoutError (any other exit is a runtime call that raised,    *)
(* the container being gone); between two polls it sleeps at least one     *)
(* poll interval, and once the elapsed time has reached the timeout window *)
(* it makes no further poll.                                               *)
(***************************************************************************)
C28_PollingTerminates ==
    /\ \A o \in Runners : (pc[o] \in {"wait", "logs"}) ~> (pc[o] = "idle")
    /\ [][\A o \in Orchs :
             /\ (pc[o] \in {"wait", "logs"} /\ pc'[o] = "idle")
                  => /\ event'.orch = o /\ event'.op = "run"
                     /\ \/ event'.outcome \in
                              {"ok", "ContainerStopped", "TimeoutError"}
                        \/ /\ event'.outcome = "NotFound"
                           /\ containers[container[o]].status = "removed"
                     /\ event'.outcome = "ok"
                          => Contains(logs[o], ANALYSIS_COMPLETE_MESSAGE)
             /\ (pc[o] = "logs" /\ pc'[o] = "wait")
                  => /\ "sleep" \in event'.calls
                     /\ elapsed'[o] >=
                            Min(elapsed[o] + PollInterval, TimeoutWindow)
             /\ (pc[o] = "wait" /\ StepOf(o) /\ elapsed[o] >= TimeoutWindow)
                  => /\ event'.calls = {}
                     /\ pc'[o] # "logs"
       ]_vars

\* the loop has polled, echoed output without the marker, slept until the
\* deadline and ended with TimeoutError, the Instance still writing
C28_Witness ==
    /\ event.op = "run"
    /\ event.outcome = "TimeoutError"
    /\ pc[event.orch] = "idle"
    /\ echoed[event.orch] # << >>
    /\ containers[container[event.orch]].status = "running"
    /\ Len(logs[event.orch]) > Len(echoed[event.orch])

Held(emitted, chunk) == emitted \o chunk

(***************************************************************************)
(* C30.  The parser is total: from every raw output each step of the call  *)
(* handles one more line or returns.  A line that is blank, has fewer than *)
(* three colon-separated fields or whose line-number field is not an       *)
(* integer changes no hit; every other line adds its (file, line number)   *)
(* to the hits, also after skipped lines; empty output yields an empty     *)
(* result.                                                                 *)
(***************************************************************************)
C30_ParserTotal ==
    /\ [](parsing = "returned" /\ output = << >> => results = << >>)
    /\ [][(parsing = "loop" /\ lines # << >>) =>
             IF HasFields(Head(lines))
             THEN Covered(Held(results', current_chunk')) =
                      Append(Covered(Held(results, current_chunk)),
                             <<BeforeFirstColon(Head(lines)),
                               int(BetweenColons(Head(lines)))[1]>>)
             ELSE results' = results /\ current_chunk' = current_chunk
       ]_vars
    /\ [][/\ parsing = "called" => parsing' = "loop"
          /\ parsing = "loop" =>
                IF lines = << >> THEN parsing' = "returned"
                ELSE lines' = Tail(lines)
       ]_vars

\* three lines have been parsed, the second of them skipped, and the first
\* and third make one hit
C30_Witness ==
    /\ parsing = "returned"
    /\ Len(output_lines(output)) = 3
    /\ ~HasFields(output_lines(output)[2])
    /\ Len(results) = 1
    /\ results[1].start_line = 1
    /\ results[1].end_line = 2

\* No part of the path steps to a parent directory
NoDotDot(parts) == \A i \in 1..Len(parts) : parts[i] # DotDot

(***************************************************************************)
(* C23.  For every base directory and every sequence of path components,   *)
(* with '..' segments and absolute components and no symbolic links,       *)
(* safe_path_join either raises ValueError or returns a path that is the   *)
(* resolved base or lies beneath it; it never returns a path outside the   *)
(* base.                                                                   *)
(***************************************************************************)
C23_SafePathJoinStaysInside ==
    (call.fn = "safe_path_join" /\ reply # None) =>
        \/ reply[1].outcome = "ValueError"
        \/ /\ reply[1].outcome = "ok"
           /\ NoDotDot(reply[1].path)
           /\ IsPrefix(resolve(Path(call.base)).parts, reply[1].path)

\* '..' then 'b' joined to /a/b has left the base and come back into it
C23_Witness ==
    /\ call.fn = "safe_path_join"
    /\ call.base = <<"/", "a", "/", "b">>
    /\ call.paths = << <<".", ".">>, <<"b">> >>
    /\ reply = Some(Returned(<< <<"a">>, <<"b">> >>))

(***************************************************************************)
(* C24.  read_file_lines brings the requested line numbers within the      *)
(* file: for every readable file and all start_line and end_line the       *)
(* chunk has 1 <= start_line <= end_line <= number of lines of the file,   *)
(* and its content is exactly the lines start_line through end_line.       *)
(***************************************************************************)
C24_LineNumbersWithinFile ==
    (call.fn = "read_file_lines" /\ reply # None /\ call.file.exists) =>
        /\ 1 <= reply[1].start_line
        /\ reply[1].start_line <= reply[1].end_line
        /\ reply[1].end_line <= Len(call.file.lines)
        /\ reply[1].content =
              join_all(SubSeq(call.file.lines, reply[1].start_line,
                              reply[1].end_line))

(***************************************************************************)
(* C25.  tree_dir never returns more than 100 entries, the root entry,     *)
(* listed first, included, whatever the tree and the depth, and it lists   *)
(* no entry below the root that lies more than `depth` levels below it.    *)
(***************************************************************************)
C25_TreeDirCapAndDepth ==
    (call.fn = "tree_dir" /\ reply # None) =>
        /\ Len(reply[1].tree) <= 100
        /\ reply[1].tree # << >> => reply[1].tree[1] = << >>
        /\ \A i \in 2..Len(reply[1].tree) :
              /\ reply[1].tree[i] # << >>
              /\ Len(reply[1].tree[i]) <= call.depth

\* a tree of 120 entries walked to its deepest level: the listing stops at
\* 100 entries
C25_Witness ==
    /\ call.fn = "tree_dir"
    /\ call.tree = [width |-> 3, levels |-> 4]
    /\ call.depth = 4
    /\ reply # None
    /\ Len(reply[1].tree) = 100
    /\ \E i \in 1..100 : Len(reply[1].tree[i]) = 4

(***************************************************************************)
(* C22.  During every tool call (read_files, read_file_lines, read_dirs,   *)
(* tree_dir, search) the keepalive task sends at least one progress report *)
(* to the client between the start of the call and its return.             *)
(***************************************************************************)
C22_KeepaliveReportsDuringCall ==
    handler = "returned" => pings >= 1

\* The lines of the output the loop handles that carry a file, a number and
\* a code text
FieldLines == SelectSeq(output_lines(output), HasFields)

\* The number of lines the hits before the i-th stand for
RECURSIVE LinesBefore(_, _)
LinesBefore(hits, i) ==
    IF i <= 1 THEN 0
    ELSE LinesBefore(hits, i - 1)
            + (hits[i - 1].end_line - hits[i - 1].start_line + 1)

\* The lines the i-th hit is made of, in order
PartsOf(hits, i) ==
    [k \in 1..(hits[i].end_line - hits[i].start_line + 1) |->
        FieldLines[LinesBefore(hits, i) + k]]

C36_SkippedLineSeparatesHits ==
    [][(/\ NextLineMeetsHit
        /\ Handled # << >>
        /\ ~HasFields(Handled[Len(Handled)]))
          => /\ results' = Append(results, current_chunk[1])
             /\ current_chunk' = Some(HitOfLine(Head(lines)))
      ]_vars

(***************************************************************************)
(* C34.  After cleanup() has stopped the Instance of an orchestrator       *)
(* (STOPPED), a search() on it signals NotReady and performs no exec       *)
(* inside the stopped Instance.                                            *)
(***************************************************************************)
C34_SearchAfterCleanupIsNotReady ==
    \A o \in Orchs :
        (event.orch = o /\ event.op = "search" /\ phase[o] = "STOPPED")
            => (event.outcome = "NotReady" /\ "exec" \notin event.calls)

(***************************************************************************)
(* C35.  Two objects with the same build context that prepare against the  *)
(* one image store, their lookups and builds interleaved in any order:     *)
(* the build of their tag is invoked at most once (never again once an     *)
(* image under the tag is in the store), and the images they end up        *)
(* holding are the one under that tag.                                     *)
(***************************************************************************)
C35_ConcurrentPrepareBuildsOnce ==
    [][\A o \in Orchs :
         /\ (pc[o] = "build" /\ pc'[o] # "build") => tag[o] \notin images
         /\ \A p \in Orchs :
               (tag'[o] = tag'[p] /\ image'[o] # None /\ image'[p] # None)
                   => (image'[o] = image'[p] /\ image'[o] = Some(tag'[o]))
      ]_vars

(***************************************************************************)
(* C32.  The tag is the hash of exactly the bytes the build is sent: when  *)
(* the build is invoked after a lookup that missed, the stream of the      *)
(* build context stands at its start, the build is sent the whole archive  *)
(* (the Dockerfile, then the run script, then the repository), and the tag *)
(* of the build is the tag computed from those bytes.                      *)
(***************************************************************************)
C32_TagHashesWhatIsBuilt ==
    [][\A o \in Orchs :
         (pc[o] = "build" /\ pc'[o] # "build") =>
            LET sent == sent_to_build(o)
                d == sent[2]
                r == sent[4 + d]
            IN  /\ position[o] = 0
                /\ sent = build_context[o]
                /\ tag[o] = SubSeq(hexdigest(sent), 1, TagHashLen)
                /\ Len(sent) >= 6
                /\ sent[1] = NameDockerfile
                /\ sent[3 + d] = NameRunScript
                /\ sent[5 + d + r] = NameRepo
                /\ Len(sent) = 6 + d + r + sent[6 + d + r]
      ]_vars

\* an object stands before the build of an archive with a repository that
\* is not empty, the tag computed and the stream at its start
C32_Witness ==
    \E o \in Orchs :
        /\ pc[o] = "build"
        /\ tag[o] # << >>
        /\ position[o] = 0
        /\ Len(build_context[o]) > 7

\* The handler has left its `async with` block
BlockLeft == handler \in {"returned", "raised"}

(***************************************************************************)
(* C33.  When the body of an `async with ProgressKeepAlive(ctx)` block has *)
(* ended, by a return or by an exception, the block is left only once the  *)
(* cancelled keepalive task is done: afterwards no task is alive, no       *)
(* progress report is sent, and the caller gets the result or the          *)
(* exception of the body, never the CancelledError of the task.            *)
(***************************************************************************)
C33_KeepaliveEndsWithBlock ==
    [][/\ (~BlockLeft /\ BlockLeft') =>
             /\ task = "cancelled"
             /\ exc' = exc
             /\ (handler' = "raised") = (exc # "none")
       /\ BlockLeft' =>
             /\ task' = "cancelled"
             /\ exc' # "CancelledError"
       /\ (BlockLeft /\ BlockLeft') => pings' = pings
      ]_vars

\* a tree_dir call whose body raised ValueError has left the block: the
\* task is cancelled and the caller gets the ValueError
C33_Witness ==
    /\ tool = "tree_dir"
    /\ handler = "raised"
    /\ exc = "ValueError"
    /\ task = "cancelled"

====
